---- MODULE Spec2Model ----
(***************************************************************************)
(* Model of src/src/Player.ts (discord-player): the per-guild queue        *)
(* registry with its voice-state handler and empty-channel cooldown        *)
(* timers, and the extractor registry with the search pipeline.            *)
(*                                                                         *)
(* Spec        : queue registry, voice-state handler, cooldown timers.     *)
(* SpecSearch  : extractor registry (use / unuse) and search.              *)
(***************************************************************************)
EXTENDS Bags, FiniteSets, Integers, Sequences, TLC

VARIABLES
    queues,      \* Player.queues: Collection<Snowflake, Queue>, insertion ordered
    heap,        \* the Queue objects ever constructed; a Queue is its index
    timers,      \* pending setTimeout callbacks: <<queue, handle>>
    voice,       \* voice[g][m]: the voice channel of member m in guild g
    emitted,     \* bag of <<event, queue>> emitted by the Player
    ret,         \* outcome of the last operation or handler: value and error
    extractors,  \* Player.extractors: Collection<string, ExtractorModel>
    models,      \* number of ExtractorModel objects constructed by use()
    found        \* outcome of the last search(): result, error, provider calls

varsQ == <<queues, heap, timers, voice, emitted, ret>>
varsS == <<extractors, models, found>>
vars == <<queues, heap, timers, voice, emitted, ret, extractors, models, found>>

-----------------------------------------------------------------------------
(* Bounds of the model. *)

\* Queue objects that may be constructed in one behaviour
MaxQueues == 2
\* setTimeout handles that may be pending at once for one Queue
MaxTimers == 2

-----------------------------------------------------------------------------
(* Values *)

Undefined == "undefined"
NoError == "none"
NoChannel == "null"
\* the error with which a failing Queue.destroy() leaves a handler
TeardownError == "TeardownError"
\* no Queue: what Collection.get returns for an absent guild
NoQueue == 0
\* no handle under the empty_<guild> key of queue._cooldownsTimeout
NoTimer == 0
\* createQueue called without queueInitOptions
NoOptions == [undefined |-> TRUE]

Guilds == {"g1", "g2"}
\* a guild reference that client.guilds.resolve cannot resolve
UnknownGuild == "g?"
GuildRefs == Guilds \cup {UnknownGuild}

Bot == "bot"
\* the members of each guild that are not bots
Humans(g) == IF g = "g1" THEN {"m1", "m2"} ELSE {}
Members(g) == {Bot} \cup Humans(g)
\* the voice channels of a guild, and those each member ever joins
BotChannel == "vc"
Channels == {BotChannel, "other"}
ChannelsOf(m) == IF m = "m1" THEN Channels ELSE {BotChannel}

\* PlayerOptions objects a caller passes to createQueue
QueueInitOptions ==
    { [leaveOnEmpty |-> TRUE,  leaveOnEmptyCooldown |-> 1000, ytdlOptions |-> Undefined, metadata |-> "meta"],
      [leaveOnEmpty |-> FALSE, leaveOnEmptyCooldown |-> 0,    ytdlOptions |-> "custom",  metadata |-> Undefined] }

\* Player.options.ytdlOptions, the process-wide default
PlayerYtdlOptions == "default"

-----------------------------------------------------------------------------
(* Collection (a JavaScript Map): a sequence of entries in insertion order *)

Has(c, k) == \E i \in 1..Len(c) : c[i].key = k

\* Collection.get for a key the Collection has
Get(c, k) == c[CHOOSE i \in 1..Len(c) : c[i].key = k].value


MapSet(c, k, v) ==
    IF Has(c, k)
    THEN [i \in 1..Len(c) |-> IF c[i].key = k THEN [key |-> k, value |-> v] ELSE c[i]]
    ELSE Append(c, [key |-> k, value |-> v])

MapDelete(c, k) == SelectSeq(c, LAMBDA e : e.key # k)

Keys(c) == [i \in 1..Len(c) |-> c[i].key]

-----------------------------------------------------------------------------
(* Collaborators of the Player *)

\* client.guilds.resolve
resolveGuild(ref) == IF ref \in Guilds THEN ref ELSE Undefined

\* Util.isVoiceEmpty(channel), evaluated in voice state v of guild g
isVoiceEmpty(v, g, channel) == \A m \in Humans(g) : v[g][m] # channel

\* new Queue(player, guild, options)
NewQueue(guild, options) ==
    [guild |-> guild,
     options |-> options,
     metadata |-> Undefined,
     connection |-> NoChannel,
     cooldownsTimeout |-> NoTimer,
     destroyed |-> 0]

\* queue.destroy() when it completes: the session is torn down and its
\* guild's registry entry is removed.
destroyHeap(h, q) == [h EXCEPT ![q].destroyed = @ + 1]
destroyQueues(qs, h, q) == MapDelete(qs, h[q].guild)

\* the handle setTimeout returns: one that is not pending for this queue
FreeHandles(q) == {k \in 1..MaxTimers : <<q, k>> \notin timers}
NewHandle(q) == CHOOSE k \in FreeHandles(q) : \A j \in FreeHandles(q) : k <= j

Emit(event, q) == emitted (+) SetToBag({<<event, q>>})

Result(val, err) == [val |-> val, err |-> err]

-----------------------------------------------------------------------------
(* Player.getQueue *)

getQueue(guild) == IF Has(queues, guild) THEN Get(queues, guild) ELSE NoQueue

(* Player.createQueue(guild, queueInitOptions) *)

\* lines 108-115: construct the Queue and register it
constructQueue(guild, opts) ==
    IF opts = NoOptions
    THEN \* queueInitOptions.metadata on undefined
         /\ ret' = Result(NoQueue, "TypeError")
         /\ UNCHANGED <<queues, heap>>
    ELSE /\ Len(heap) < MaxQueues
         /\ LET q == Len(heap) + 1
                options == [leaveOnEmpty |-> opts.leaveOnEmpty,
                            leaveOnEmptyCooldown |-> opts.leaveOnEmptyCooldown,
                            ytdlOptions |-> IF opts.ytdlOptions = Undefined
                                            THEN PlayerYtdlOptions ELSE opts.ytdlOptions]
            IN /\ heap' = Append(heap, [NewQueue(guild, options) EXCEPT !.metadata = opts.metadata])
               /\ queues' = MapSet(queues, guild, q)
               /\ ret' = Result(q, NoError)

createQueue_Push(ref, opts) ==
    LET guild == resolveGuild(ref) IN
    /\ UNCHANGED <<timers, voice, emitted>>
    /\ IF guild = Undefined \/ opts = NoOptions
       THEN /\ ret' = Result(NoQueue, "Unknown Guild")
            /\ UNCHANGED <<queues, heap>>
       ELSE /\ Len(heap) < MaxQueues
            /\ heap' = Append(heap, NewQueue(guild, opts))
            /\ queues' = Append(queues, [key |-> guild, value |-> Len(heap) + 1])
            /\ ret' = Result(Len(heap) + 1, NoError)

createQueue_NoHas(ref, opts) ==
    LET guild == resolveGuild(ref) IN
    /\ UNCHANGED <<timers, voice, emitted>>
    /\ IF guild = Undefined
       THEN /\ ret' = Result(NoQueue, "Unknown Guild")
            /\ UNCHANGED <<queues, heap>>
       ELSE constructQueue(guild, opts)

createQueue(ref, opts) ==
    LET guild == resolveGuild(ref) IN
    /\ UNCHANGED <<timers, voice, emitted>>
    /\ IF guild = Undefined
       THEN /\ ret' = Result(NoQueue, "Unknown Guild")
            /\ UNCHANGED <<queues, heap>>
       ELSE IF Has(queues, guild)
       THEN /\ ret' = Result(Get(queues, guild), NoError)
            /\ UNCHANGED <<queues, heap>>
       ELSE constructQueue(guild, opts)

(* Player.deleteQueue(guild); teardownFails: prev.destroy() throws *)

deleteQueue(ref) ==
    LET guild == resolveGuild(ref) IN
    /\ UNCHANGED <<timers, voice, emitted>>
    /\ IF guild = Undefined
       THEN /\ ret' = Result(NoQueue, "Unknown Guild")
            /\ UNCHANGED <<queues, heap>>
       ELSE LET prev == getQueue(guild) IN
            /\ ret' = Result(prev, NoError)
            /\ IF prev = NoQueue
               THEN \* try { prev.destroy() } catch {}: TypeError, swallowed
                    /\ heap' = heap
                    /\ queues' = MapDelete(queues, guild)
               ELSE \E teardownFails \in BOOLEAN :
                    IF teardownFails
                    THEN /\ heap' = heap
                         /\ queues' = MapDelete(queues, guild)
                    ELSE /\ heap' = destroyHeap(heap, prev)
                         /\ queues' = MapDelete(destroyQueues(queues, heap, prev), guild)

(* Queue.connect(channel): the queue gets its voice connection in the      *)
(* channel the bot has joined.                                              *)

connect(guild) ==
    LET q == getQueue(guild) IN
    /\ q # NoQueue
    /\ heap[q].connection = NoChannel
    /\ voice[guild][Bot] # NoChannel
    /\ heap' = [heap EXCEPT ![q].connection = voice[guild][Bot]]
    /\ ret' = Result(NoQueue, NoError)
    /\ UNCHANGED <<queues, timers, voice, emitted>>

-----------------------------------------------------------------------------
(* Player._handleVoiceState(oldState, newState), run after the platform    *)
(* has applied the change: member m of guild g went from channel old to    *)
(* channel new.                                                             *)

handleVoiceState_NoLeaveOnEmptyTest(g, m, old, new) ==
    LET queue == getQueue(g) IN
    IF queue = NoQueue
    THEN /\ ret' = Result(NoQueue, NoError)
         /\ UNCHANGED <<queues, heap, timers, emitted>>
    ELSE IF m = Bot /\ new = NoChannel
    THEN \E teardownFails \in BOOLEAN :
         IF teardownFails
         THEN \* queue.destroy() throws out of the handler
              /\ ret' = Result(NoQueue, TeardownError)
              /\ UNCHANGED <<queues, heap, timers, emitted>>
         ELSE /\ heap' = destroyHeap(heap, queue)
              /\ queues' = destroyQueues(queues, heap, queue)
              /\ emitted' = Emit("botDisconnect", queue)
              /\ ret' = Result(NoQueue, NoError)
              /\ UNCHANGED timers
    ELSE IF heap[queue].connection = NoChannel
    THEN /\ ret' = Result(NoQueue, NoError)
         /\ UNCHANGED <<queues, heap, timers, emitted>>
    ELSE IF old = NoChannel \/ new # NoChannel
    THEN LET emptyTimeout == heap[queue].cooldownsTimeout
             channelEmpty == isVoiceEmpty(voice', g, heap[queue].connection)
         IN /\ ret' = Result(NoQueue, NoError)
            /\ UNCHANGED <<queues, emitted>>
            /\ IF ~channelEmpty /\ emptyTimeout # NoTimer
               THEN /\ timers' = timers \ {<<queue, emptyTimeout>>}
                    /\ heap' = [heap EXCEPT ![queue].cooldownsTimeout = NoTimer]
               ELSE UNCHANGED <<heap, timers>>
    ELSE IF ~isVoiceEmpty(voice', g, heap[queue].connection)
    THEN /\ ret' = Result(NoQueue, NoError)
         /\ UNCHANGED <<queues, heap, timers, emitted>>
    ELSE /\ FreeHandles(queue) # {}
         /\ LET timeout == NewHandle(queue) IN
            /\ timers' = timers \cup {<<queue, timeout>>}
            /\ heap' = [heap EXCEPT ![queue].cooldownsTimeout = timeout]
         /\ ret' = Result(NoQueue, NoError)
         /\ UNCHANGED <<queues, emitted>>

handleVoiceState(g, m, old, new) ==
    LET queue == getQueue(g) IN
    IF queue = NoQueue
    THEN /\ ret' = Result(NoQueue, NoError)
         /\ UNCHANGED <<queues, heap, timers, emitted>>
    ELSE IF m = Bot /\ new = NoChannel
    THEN \E teardownFails \in BOOLEAN :
         IF teardownFails
         THEN \* queue.destroy() throws out of the handler
              /\ ret' = Result(NoQueue, TeardownError)
              /\ UNCHANGED <<queues, heap, timers, emitted>>
         ELSE /\ heap' = destroyHeap(heap, queue)
              /\ queues' = destroyQueues(queues, heap, queue)
              /\ emitted' = Emit("botDisconnect", queue)
              /\ ret' = Result(NoQueue, NoError)
              /\ UNCHANGED timers
    ELSE IF ~heap[queue].options.leaveOnEmpty \/ heap[queue].connection = NoChannel
    THEN /\ ret' = Result(NoQueue, NoError)
         /\ UNCHANGED <<queues, heap, timers, emitted>>
    ELSE IF old = NoChannel \/ new # NoChannel
    THEN LET emptyTimeout == heap[queue].cooldownsTimeout
             channelEmpty == isVoiceEmpty(voice', g, heap[queue].connection)
         IN /\ ret' = Result(NoQueue, NoError)
            /\ UNCHANGED <<queues, emitted>>
            /\ IF ~channelEmpty /\ emptyTimeout # NoTimer
               THEN /\ timers' = timers \ {<<queue, emptyTimeout>>}
                    /\ heap' = [heap EXCEPT ![queue].cooldownsTimeout = NoTimer]
               ELSE UNCHANGED <<heap, timers>>
    ELSE IF ~isVoiceEmpty(voice', g, heap[queue].connection)
    THEN /\ ret' = Result(NoQueue, NoError)
         /\ UNCHANGED <<queues, heap, timers, emitted>>
    ELSE /\ FreeHandles(queue) # {}
         /\ LET timeout == NewHandle(queue) IN
            /\ timers' = timers \cup {<<queue, timeout>>}
            /\ heap' = [heap EXCEPT ![queue].cooldownsTimeout = timeout]
         /\ ret' = Result(NoQueue, NoError)
         /\ UNCHANGED <<queues, emitted>>

\* the platform's voiceStateUpdate event
voiceStateUpdate(g, m, new) ==
    LET old == voice[g][m] IN
    /\ old # NoChannel \/ new # NoChannel
    /\ voice' = [voice EXCEPT ![g][m] = new]
    /\ handleVoiceState(g, m, old, new)

(* The setTimeout callback of lines 87-92, for the queue it closed over *)

timeout(queue, handle) ==
    /\ <<queue, handle>> \in timers
    /\ timers' = timers \ {<<queue, handle>>}
    /\ UNCHANGED voice
    /\ IF ~isVoiceEmpty(voice, heap[queue].guild, heap[queue].connection)
       THEN /\ ret' = Result(NoQueue, NoError)
            /\ UNCHANGED <<queues, heap, emitted>>
       ELSE IF ~Has(queues, heap[queue].guild)
       THEN /\ ret' = Result(NoQueue, NoError)
            /\ UNCHANGED <<queues, heap, emitted>>
       ELSE \E teardownFails \in BOOLEAN :
            IF teardownFails
            THEN \* queue.destroy() throws out of the callback
                 /\ ret' = Result(NoQueue, TeardownError)
                 /\ UNCHANGED <<queues, heap, emitted>>
            ELSE /\ heap' = destroyHeap(heap, queue)
                 /\ queues' = destroyQueues(queues, heap, queue)
                 /\ emitted' = Emit("channelEmpty", queue)
                 /\ ret' = Result(NoQueue, NoError)

-----------------------------------------------------------------------------
(* Extractor registry and search: values *)

\* QueryType members that search() dispatches on, and the others
AUTO == "auto"
Unset == "unset"
YOUTUBE_SEARCH == "youtube_search"
YOUTUBE_PLAYLIST == "youtube_playlist"
YOUTUBE_VIDEO == "youtube_video"
SOUNDCLOUD_TRACK == "soundcloud_track"
SOUNDCLOUD_SEARCH == "soundcloud_search"
SOUNDCLOUD_PLAYLIST == "soundcloud_playlist"
SPOTIFY_SONG == "spotify_song"
SPOTIFY_ALBUM == "spotify_album"
SPOTIFY_PLAYLIST == "spotify_playlist"

BuiltinKinds ==
    {YOUTUBE_SEARCH, SOUNDCLOUD_TRACK, SOUNDCLOUD_SEARCH, SPOTIFY_SONG,
     SPOTIFY_PLAYLIST, SPOTIFY_ALBUM, SOUNDCLOUD_PLAYLIST, YOUTUBE_PLAYLIST}
SearchEngines == BuiltinKinds \cup {YOUTUBE_VIDEO, AUTO, Unset}

\* query strings, one of each shape the classifier tells apart
Queries ==
    {"lofi beats",
     "https://youtu.be/v", "https://youtube.com/playlist?list=p",
     "https://soundcloud.com/u/t", "https://soundcloud.com/u/sets/s",
     "https://open.spotify.com/track/t", "https://open.spotify.com/album/a",
     "https://open.spotify.com/playlist/p"}
\* a query that is already a Track
TrackQuery == "[Track]"
\* a query that is a Track of a Playlist resolved earlier
PlaylistTrackQuery == "[Track of a Playlist]"
TrackQueries == {TrackQuery, PlaylistTrackQuery}

\* QueryResolver.resolve(query)
QueryResolver_resolve(query) ==
    CASE query = "https://open.spotify.com/track/t" -> SPOTIFY_SONG
      [] query = "https://open.spotify.com/album/a" -> SPOTIFY_ALBUM
      [] query = "https://open.spotify.com/playlist/p" -> SPOTIFY_PLAYLIST
      [] query = "https://soundcloud.com/u/t" -> SOUNDCLOUD_TRACK
      [] query = "https://soundcloud.com/u/sets/s" -> SOUNDCLOUD_PLAYLIST
      [] query = "https://youtu.be/v" -> YOUTUBE_VIDEO
      [] query = "https://youtube.com/playlist?list=p" -> YOUTUBE_PLAYLIST
      [] OTHER -> YOUTUBE_SEARCH

\* search options: none, or requestedBy with a searchEngine
NoSearchOptions == [undefined |-> TRUE]
SearchOptions == [requestedBy : {"u1"}, searchEngine : SearchEngines]

\* client.users.resolve
resolveUser(u) == u

\* Extractor names given to use() and unuse()
ExtractorNames == {"X", "Y"}
NoName == ""

\* The raw extractor objects callers register, by what they do:
\*   one   - validate accepts every query, getInfo yields one track
\*   list  - validate accepts URLs only, getInfo yields a playlist of two
\*   empty - validate accepts every query, getInfo yields no result
\*   fail  - validate accepts every query, getInfo rejects
\*   bad   - has no getInfo method
RawExtractors == {"one", "list", "empty", "fail"}
InvalidExtractors == {"bad"}

\* an ExtractorModel the caller constructed itself (instanceof ExtractorModel)
OwnModel == [name |-> "own", raw |-> "list", oid |-> "own"]
NoModel == [name |-> NoName, raw |-> Undefined, oid |-> Undefined]

\* new ExtractorModel(extractorName, extractor), the n-th constructed by use()
NewExtractorModel(extractorName, extractor, n) ==
    [name |-> extractorName, raw |-> extractor, oid |-> ToString(n)]

\* ExtractorModel.validate(query)
validate(model, query) ==
    IF model.raw = "list" THEN QueryResolver_resolve(query) # YOUTUBE_SEARCH ELSE TRUE

\* ExtractorModel.handle(query): rejected, or the data it resolves to
handle(model, query) ==
    CASE model.raw = "one"  -> [rejected |-> FALSE, playlist |-> FALSE, data |-> <<"x1">>]
      [] model.raw = "list" -> [rejected |-> FALSE, playlist |-> TRUE,  data |-> <<"x1", "x2">>]
      [] model.raw = "fail" -> [rejected |-> TRUE,  playlist |-> FALSE, data |-> <<>>]
      [] OTHER              -> [rejected |-> FALSE, playlist |-> FALSE, data |-> <<>>]

\* Playlist and Track objects. A Track refers to its Playlist by id.
NoPlaylist == [id |-> "null", source |-> "null", tracks |-> <<>>]
Track(title, source, requestedBy, playlistId) ==
    [title |-> title, source |-> source, requestedBy |-> requestedBy, playlist |-> playlistId]
\* new Playlist(...) with tracks: [], then playlist.tracks = tracks
Playlist(id, source, tracks) == [id |-> id, source |-> source, tracks |-> tracks]

SearchResult(playlist, tracks) == [playlist |-> playlist, tracks |-> tracks]
EmptyResult == SearchResult(NoPlaylist, <<>>)

\* one call made during a search: a capability check, an extractor fetch or
\* a provider fetch, with whether it accepted / resolved
Call(op, on, ok) == [op |-> op, on |-> on, ok |-> ok]

\* what a provider fetch answers: a rejection, or n items
Rejected == [ok |-> FALSE, n |-> 0]
Resolved(n) == [ok |-> TRUE, n |-> n]
\* most items a provider answers with
MaxItems == 2
Responses == {Rejected} \cup {Resolved(n) : n \in 0..MaxItems}

Outcome(op, args, val, err, calls) ==
    [op |-> op, args |-> args, val |-> val, err |-> err, calls |-> calls]

Items(prefix, n) == [i \in 1..n |-> prefix \o ToString(i)]

-----------------------------------------------------------------------------
(* Player.use(extractorName, extractor, force) *)

\* ExtractorModel objects use() may construct in one behaviour
MaxModels == 2

use_Overwrite(extractorName, extractor, force) ==
    LET args == [name |-> extractorName, extractor |-> extractor, force |-> force] IN
    IF extractorName = NoName \/ extractor \in InvalidExtractors
    THEN /\ found' = Outcome("use", args, NoModel, "Invalid extractor data!", <<>>)
         /\ UNCHANGED <<extractors, models>>
    ELSE /\ models < MaxModels
         /\ LET model == NewExtractorModel(extractorName, extractor, models + 1) IN
            /\ extractors' = MapSet(extractors, model.name, model)
            /\ models' = models + 1
            /\ found' = Outcome("use", args, model, NoError, <<>>)

use(extractorName, extractor, force) ==
    LET args == [name |-> extractorName, extractor |-> extractor, force |-> force] IN
    IF extractorName = NoName
    THEN /\ found' = Outcome("use", args, NoModel, "Cannot use unknown extractor!", <<>>)
         /\ UNCHANGED <<extractors, models>>
    ELSE IF Has(extractors, extractorName) /\ ~force
    THEN /\ found' = Outcome("use", args, Get(extractors, extractorName), NoError, <<>>)
         /\ UNCHANGED <<extractors, models>>
    ELSE IF extractor = OwnModel.oid
    THEN \* extractor instanceof ExtractorModel
         /\ extractors' = MapSet(extractors, extractorName, OwnModel)
         /\ found' = Outcome("use", args, OwnModel, NoError, <<>>)
         /\ UNCHANGED models
    ELSE IF extractor \in InvalidExtractors
    THEN /\ found' = Outcome("use", args, NoModel, "Invalid extractor data!", <<>>)
         /\ UNCHANGED <<extractors, models>>
    ELSE /\ models < MaxModels
         /\ LET model == NewExtractorModel(extractorName, extractor, models + 1) IN
            /\ extractors' = MapSet(extractors, model.name, model)
            /\ models' = models + 1
            /\ found' = Outcome("use", args, model, NoError, <<>>)

(* Player.unuse(extractorName) *)

unuse(extractorName) ==
    LET args == [name |-> extractorName] IN
    IF ~Has(extractors, extractorName)
    THEN /\ found' = Outcome("unuse", args, NoModel, "Cannot find extractor", <<>>)
         /\ UNCHANGED <<extractors, models>>
    ELSE /\ found' = Outcome("unuse", args, Get(extractors, extractorName), NoError, <<>>)
         /\ extractors' = MapDelete(extractors, extractorName)
         /\ UNCHANGED models

-----------------------------------------------------------------------------
(* Player.search(query, options) *)

\* A step of search: how it ends (kind "return" or "raise"), or that it goes
\* on to what follows (kind "none"); with the calls made so far.
Step(kind, val, err, calls) == [kind |-> kind, val |-> val, err |-> err, calls |-> calls]

\* line 154: the Track passed as the query, returned as it is
givenTrack(query) ==
    Track(query, "given", "given", IF query = PlaylistTrackQuery THEN "given" ELSE NoPlaylist.id)

extractorResult_NoBackRef(data, requestedBy) ==
    LET id == IF data.playlist THEN "extractor" ELSE NoPlaylist.id
        tracks == [i \in 1..Len(data.data) |-> Track(data.data[i], "extractor", requestedBy, NoPlaylist.id)]
    IN SearchResult(IF data.playlist THEN Playlist(id, "extractor", tracks) ELSE NoPlaylist, tracks)

\* lines 163-182: the result built from an extractor's data
extractorResult(data, requestedBy) ==
    LET id == IF data.playlist THEN "extractor" ELSE NoPlaylist.id
        tracks == [i \in 1..Len(data.data) |-> Track(data.data[i], "extractor", requestedBy, id)]
    IN SearchResult(IF data.playlist THEN Playlist(id, "extractor", tracks) ELSE NoPlaylist, tracks)

extractorLoop_LastMatch(i, query, requestedBy, calls) ==
    LET matching == {j \in i..Len(extractors) :
                        /\ validate(extractors[j].value, query)
                        /\ Len(handle(extractors[j].value, query).data) > 0}
    IN IF matching = {}
       THEN Step("none", EmptyResult, NoError, calls)
       ELSE LET j == CHOOSE k \in matching : \A l \in matching : l <= k
            IN Step("return", extractorResult(handle(extractors[j].value, query), requestedBy), NoError,
                    calls \o <<Call("validate", extractors[j].key, TRUE),
                               Call("handle", extractors[j].key, TRUE)>>)

\* lines 159-184: the loop over the extractors, from the i-th on
RECURSIVE extractorLoop(_, _, _, _)
extractorLoop(i, query, requestedBy, calls) ==
    IF i > Len(extractors)
    THEN Step("none", EmptyResult, NoError, calls)
    ELSE LET name == extractors[i].key
             extractor == extractors[i].value
         IN IF ~validate(extractor, query)
            THEN extractorLoop(i + 1, query, requestedBy, Append(calls, Call("validate", name, FALSE)))
            ELSE LET data == handle(extractor, query)
                     made == calls \o <<Call("validate", name, TRUE), Call("handle", name, ~data.rejected)>>
                 IN IF data.rejected
                    THEN \* await extractor.handle(query) rejects
                         Step("raise", EmptyResult, "ExtractorError", made)
                    ELSE IF Len(data.data) > 0
                    THEN Step("return", extractorResult(data, requestedBy), NoError, made)
                    ELSE extractorLoop(i + 1, query, requestedBy, made)

\* line 186: the source kind the switch dispatches on
sourceKind_NoClassify(query, searchEngine) ==
    IF searchEngine = AUTO THEN YOUTUBE_SEARCH ELSE searchEngine

sourceKind(query, searchEngine) ==
    IF searchEngine = AUTO THEN QueryResolver_resolve(query) ELSE searchEngine

\* lines 188-210
youtubeSearch(query, requestedBy, calls) ==
    { LET made == Append(calls, Call("YouTube.search", "YouTube", videos.ok)) IN
      IF ~videos.ok
      THEN Step("return", EmptyResult, NoError, made)
      ELSE Step("return",
                SearchResult(NoPlaylist,
                    [i \in 1..videos.n |-> Track(Items("yt", videos.n)[i], "youtube", requestedBy, NoPlaylist.id)]),
                NoError, made)
      : videos \in Responses }

\* lines 217-235: one getSongInfo per result; the tracks of those that resolve
RECURSIVE soundcloudTracks(_, _, _, _)
soundcloudTracks(result, infos, requestedBy, i) ==
    IF i > Len(result) THEN <<>>
    ELSE (IF infos[i] THEN <<Track(result[i], "soundcloud", requestedBy, NoPlaylist.id)>> ELSE <<>>)
         \o soundcloudTracks(result, infos, requestedBy, i + 1)

soundcloudInfos(result, requestedBy, calls) ==
    { Step("return",
           SearchResult(NoPlaylist, soundcloudTracks(result, infos, requestedBy, 1)),
           NoError,
           calls \o [i \in 1..Len(result) |-> Call("soundcloud.getSongInfo", "SoundCloud", infos[i])])
      : infos \in [1..Len(result) -> BOOLEAN] }

\* lines 211-238
soundcloudTrackOrSearch(query, requestedBy, calls) ==
    IF QueryResolver_resolve(query) = SOUNDCLOUD_TRACK
    THEN soundcloudInfos(<<query>>, requestedBy, calls)
    ELSE UNION { LET made == Append(calls, Call("soundcloud.search", "SoundCloud", result.ok)) IN
                 IF ~result.ok \/ result.n = 0
                 THEN {Step("return", EmptyResult, NoError, made)}
                 ELSE soundcloudInfos(Items("sc", result.n), requestedBy, made)
                 : result \in Responses }

\* lines 239-258
spotifySong(query, requestedBy, calls) ==
    { LET made == Append(calls, Call("Spotify.getData", "Spotify", spotifyData.ok)) IN
      IF ~spotifyData.ok
      THEN Step("return", EmptyResult, NoError, made)
      ELSE Step("return",
                SearchResult(NoPlaylist, <<Track("sp", "spotify", requestedBy, NoPlaylist.id)>>),
                NoError, made)
      : spotifyData \in {Rejected, Resolved(1)} }

\* the items of a Spotify album (m.name) or playlist (m.track.name)
spotifyItems(type, n) ==
    [i \in 1..n |-> IF type = "playlist"
                    THEN [track |-> [name |-> Items("sp", n)[i]]]
                    ELSE [name |-> Items("sp", n)[i]]]

\* lines 259-323
spotifyPlaylist(query, requestedBy, calls) ==
    { LET made == Append(calls, Call("Spotify.getData", "Spotify", data.ok))
          items == spotifyItems(type, data.n)
          id == "spotify:" \o type
          tracks == [i \in 1..data.n |->
                        Track(IF type # "playlist" THEN items[i].name ELSE items[i].track.name,
                              "spotify", requestedBy, id)]
      IN IF ~data.ok
         THEN Step("return", EmptyResult, NoError, made)
         ELSE Step("return", SearchResult(Playlist(id, "spotify", tracks), tracks), NoError, made)
      : data \in Responses, type \in {"album", "playlist"} }

\* lines 324-362: SoundCloud is the imported Client class (line 12), not the
\* instance soundcloud (line 17); getPlaylist is a method of instances, so
\* SoundCloud.getPlaylist is undefined and calling it throws a TypeError
\* before any fetch is made.
soundcloudPlaylist(query, requestedBy, calls) ==
    { Step("raise", EmptyResult, "TypeError", calls) }

\* lines 363-404
youtubePlaylist(query, requestedBy, calls) ==
    { LET made == Append(calls, Call("YouTube.getPlaylist", "YouTube", ytpl.ok))
          n == ytpl.n + (IF more.ok THEN more.n ELSE 0)
          id == "youtube"
          tracks == [i \in 1..n |-> Track(Items("yt", n)[i], "youtube", requestedBy, id)]
      IN IF ~ytpl.ok
         THEN Step("return", EmptyResult, NoError, made)
         ELSE Step("return", SearchResult(Playlist(id, "youtube", tracks), tracks), NoError,
                   Append(made, Call("ytpl.fetch", "YouTube", more.ok)))
      : ytpl \in Responses, more \in {Rejected, Resolved(0), Resolved(1)} }

\* lines 187-407: the switch
builtin(qt, query, requestedBy, calls) ==
    CASE qt = YOUTUBE_SEARCH -> youtubeSearch(query, requestedBy, calls)
      [] qt \in {SOUNDCLOUD_TRACK, SOUNDCLOUD_SEARCH} -> soundcloudTrackOrSearch(query, requestedBy, calls)
      [] qt = SPOTIFY_SONG -> spotifySong(query, requestedBy, calls)
      [] qt \in {SPOTIFY_PLAYLIST, SPOTIFY_ALBUM} -> spotifyPlaylist(query, requestedBy, calls)
      [] qt = SOUNDCLOUD_PLAYLIST -> soundcloudPlaylist(query, requestedBy, calls)
      [] qt = YOUTUBE_PLAYLIST -> youtubePlaylist(query, requestedBy, calls)
      [] OTHER -> {Step("return", EmptyResult, NoError, calls)}

\* lines 153-408: the ways search(query, options) can end
searchSteps_BuiltinFirst(query, options) ==
    IF query \in TrackQueries
    THEN {Step("return", SearchResult(NoPlaylist, <<givenTrack(query)>>), NoError, <<>>)}
    ELSE IF options = NoSearchOptions
    THEN {Step("raise", EmptyResult, "DiscordPlayer#search needs search options!", <<>>)}
    ELSE LET requestedBy == resolveUser(options.requestedBy)
             searchEngine == IF options.searchEngine = Unset THEN AUTO ELSE options.searchEngine
             loop == extractorLoop(1, query, requestedBy, <<>>)
         IN IF sourceKind(query, searchEngine) \notin BuiltinKinds /\ loop.kind # "none"
            THEN {loop}
            ELSE builtin(sourceKind(query, searchEngine), query, requestedBy, <<>>)

searchSteps_LateOptions(query, options) ==
    IF query \in TrackQueries
    THEN {Step("return", SearchResult(NoPlaylist, <<givenTrack(query)>>), NoError, <<>>)}
    ELSE LET loop == extractorLoop(1, query, Undefined, <<>>) IN
         IF options = NoSearchOptions
         THEN {Step("raise", EmptyResult, "DiscordPlayer#search needs search options!", loop.calls)}
         ELSE LET searchEngine == IF options.searchEngine = Unset THEN AUTO ELSE options.searchEngine
              IN IF loop.kind # "none"
                 THEN {[loop EXCEPT !.val.tracks =
                          [i \in 1..Len(@) |-> [@[i] EXCEPT !.requestedBy = resolveUser(options.requestedBy)]]]}
                 ELSE builtin(sourceKind(query, searchEngine), query,
                              resolveUser(options.requestedBy), loop.calls)

searchSteps(query, options) ==
    IF query \in TrackQueries
    THEN {Step("return", SearchResult(NoPlaylist, <<givenTrack(query)>>), NoError, <<>>)}
    ELSE IF options = NoSearchOptions
    THEN {Step("raise", EmptyResult, "DiscordPlayer#search needs search options!", <<>>)}
    ELSE LET requestedBy == resolveUser(options.requestedBy)
             searchEngine == IF options.searchEngine = Unset THEN AUTO ELSE options.searchEngine
             loop == extractorLoop(1, query, requestedBy, <<>>)
         IN IF loop.kind # "none"
            THEN {loop}
            ELSE builtin(sourceKind(query, searchEngine), query, requestedBy, loop.calls)

search(query, options) ==
    /\ \E end \in searchSteps(query, options) :
          found' = Outcome("search", [query |-> query, options |-> options], end.val, end.err, end.calls)
    /\ UNCHANGED <<extractors, models>>

-----------------------------------------------------------------------------
(* Specifications *)

InitQ ==
    /\ queues = <<>>
    /\ heap = <<>>
    /\ timers = {}
    /\ voice = [g \in Guilds |-> [m \in Members(g) |-> NoChannel]]
    /\ emitted = EmptyBag
    /\ ret = Result(NoQueue, NoError)

InitS ==
    /\ extractors = <<>>
    /\ models = 0
    /\ found = Outcome("new", [name |-> NoName], NoModel, NoError, <<>>)

Init == InitQ /\ InitS

CreateQueue ==
    /\ \E ref \in GuildRefs, opts \in QueueInitOptions \cup {NoOptions} : createQueue(ref, opts)
    /\ UNCHANGED varsS
DeleteQueue ==
    /\ \E ref \in GuildRefs : deleteQueue(ref)
    /\ UNCHANGED varsS
Connect ==
    /\ \E g \in Guilds : connect(g)
    /\ UNCHANGED varsS
VoiceStateUpdate ==
    /\ \E g \in Guilds : \E m \in Members(g) : \E new \in ChannelsOf(m) \cup {NoChannel} :
           voiceStateUpdate(g, m, new)
    /\ UNCHANGED varsS
Timeout ==
    /\ \E t \in timers : timeout(t[1], t[2])
    /\ UNCHANGED varsS

NextQ ==
    \/ CreateQueue
    \/ DeleteQueue
    \/ Connect
    \/ VoiceStateUpdate
    \/ Timeout

Spec == Init /\ [][NextQ]_vars


Use ==
    /\ \E name \in ExtractorNames \cup {NoName},
          extractor \in RawExtractors \cup InvalidExtractors \cup {OwnModel.oid},
          force \in BOOLEAN : use(name, extractor, force)
    /\ UNCHANGED varsQ
Unuse ==
    /\ \E name \in ExtractorNames : unuse(name)
    /\ UNCHANGED varsQ
Search ==
    /\ \E query \in Queries \cup TrackQueries, options \in SearchOptions \cup {NoSearchOptions} :
          search(query, options)
    /\ UNCHANGED varsQ

NextS ==
    \/ Use
    \/ Unuse
    \/ Search

SpecSearch == Init /\ [][NextS]_vars

\* The bot is summoned by a member: the queue gets its connection in a
\* channel that has a human occupant. A timer that is pending fires in the
\* end (setTimeout runs its callback once the cooldown has passed).
ConnectOccupied ==
    /\ \E g \in Guilds : connect(g) /\ ~isVoiceEmpty(voice, g, voice[g][Bot])
    /\ UNCHANGED varsS

NextL ==
    \/ CreateQueue
    \/ DeleteQueue
    \/ ConnectOccupied
    \/ VoiceStateUpdate
    \/ Timeout

SpecLive == Init /\ [][NextL]_vars /\ WF_vars(Timeout)

-----------------------------------------------------------------------------
(* Properties of the queue registry and the voice-state handler *)

Queues == 1..Len(heap)
Registered(q) == Has(queues, heap[q].guild) /\ Get(queues, heap[q].guild) = q
Pending(q) == {k \in 1..MaxTimers : <<q, k>> \in timers}
Count(event, q) == CopiesIn(<<event, q>>, emitted)

\* C1: in every reachable state the registry holds at most one Queue for
\* each guild id.
C1_OneQueuePerGuild ==
    \A g \in Guilds : Cardinality({i \in 1..Len(queues) : queues[i].key = g}) <= 1

\* C1 witness: a guild whose queue was torn down by the cooldown timer has a
\* new queue registered in its place.
C1_Witness ==
    \E q \in Queues :
        /\ Count("channelEmpty", q) > 0
        /\ Has(queues, heap[q].guild)
        /\ ~Registered(q)

\* C2: createQueue for a guild that has a queue returns that same Queue and
\* changes nothing; a Queue's options are those of the call that constructed
\* it and never change afterwards.
C2_ReopenReturnsSame ==
    [][ /\ \A g \in Guilds, o \in QueueInitOptions \cup {NoOptions} :
              createQueue(g, o) =>
                  IF Has(queues, g)
                  THEN /\ ret' = Result(Get(queues, g), NoError)
                       /\ UNCHANGED <<queues, heap, timers, voice, emitted>>
                  ELSE o # NoOptions =>
                       /\ ret'.val = Len(heap')
                       /\ Has(queues', g) /\ Get(queues', g) = ret'.val
                       /\ heap'[ret'.val].options.leaveOnEmpty = o.leaveOnEmpty
                       /\ heap'[ret'.val].options.leaveOnEmptyCooldown = o.leaveOnEmptyCooldown
        /\ \A q \in Queues : heap'[q].options = heap[q].options
      ]_vars

\* C2 witness: createQueue has returned a registered queue that already has
\* its voice connection, so the call was a second one for that guild.
C2_Witness ==
    /\ ret.val # NoQueue
    /\ Registered(ret.val)
    /\ heap[ret.val].connection # NoChannel

\* C3: when a cooldown timer expires while the queue's channel is empty and
\* the queue is registered, that expiry tears the queue down and removes it
\* from the registry, the queue has then been torn down once and
\* channelEmpty has been emitted once for it; and a queue for which
\* channelEmpty was emitted is not torn down or notified again.
C3_ExpiryTearsDownOnce ==
    [][ /\ \A q \in Queues : \A k \in Pending(q) :
              ( /\ timers' = timers \ {<<q, k>>}
                /\ voice' = voice
                /\ isVoiceEmpty(voice, heap[q].guild, heap[q].connection)
                /\ Registered(q) )
              => /\ heap'[q].destroyed = 1
                 /\ ~Has(queues', heap[q].guild)
                 /\ Count("channelEmpty", q)' = 1
        /\ \A q \in Queues :
              Count("channelEmpty", q) >= 1
              => /\ Count("channelEmpty", q)' = Count("channelEmpty", q)
                 /\ heap'[q].destroyed = heap[q].destroyed
      ]_vars

\* C4: when a member joins the channel of a registered queue whose channel
\* was empty with a cooldown timer pending, no cooldown timer of that queue
\* is pending any more, the pending-timer entry is cleared, and the queue
\* stays registered with nothing torn down and nothing emitted.
C4_RejoinCancels ==
    [][ \A g \in Guilds : \A m \in Humans(g) :
            LET q == getQueue(g) IN
            ( /\ q # NoQueue
              /\ heap[q].options.leaveOnEmpty
              /\ heap[q].connection # NoChannel
              /\ Pending(q) # {}
              /\ isVoiceEmpty(voice, g, heap[q].connection)
              /\ voice'[g][m] = heap[q].connection )
            => /\ \A k \in 1..MaxTimers : <<q, k>> \notin timers'
               /\ heap'[q].cooldownsTimeout = NoTimer
               /\ heap'[q].destroyed = heap[q].destroyed
               /\ UNCHANGED <<queues, emitted>>
      ]_vars

\* C5: a voice-state event in which the bot loses its channel tears down the
\* guild's queue in that step and emits botDisconnect for it, whatever
\* leaveOnEmpty is and whether or not a cooldown timer is pending; it starts
\* and cancels no timer.
C5_ForcedDisconnect ==
    [][ \A g \in Guilds :
            LET q == getQueue(g) IN
            ( /\ q # NoQueue
              /\ voice[g][Bot] # NoChannel
              /\ voice'[g][Bot] = NoChannel )
            => /\ heap'[q].destroyed = heap[q].destroyed + 1
               /\ emitted' = Emit("botDisconnect", q)
               /\ timers' = timers
               /\ heap'[q].cooldownsTimeout = heap[q].cooldownsTimeout
      ]_vars

-----------------------------------------------------------------------------
(* Properties of the extractor registry and search *)

\* the last operation was a search for a query string with options
IsSearch ==
    /\ found.op = "search"
    /\ found.args.query \in Queries
    /\ found.args.options # NoSearchOptions

Providers == {"YouTube", "SoundCloud", "Spotify"}
ProviderCalls == SelectSeq(found.calls, LAMBDA c : c.on \in Providers)

\* the track search builds from the one item of a "one" extractor
OneTrack(requestedBy) == Track("x1", "extractor", requestedBy, NoPlaylist.id)

\* the extractor loop of the last search ended without a result or an error
NoExtractorMatched ==
    extractorLoop(1, found.args.query, found.args.options.requestedBy, <<>>).kind = "none"

\* extractor i neither yields a result nor fails for the query
Passes(i, query) ==
    \/ ~validate(extractors[i].value, query)
    \/ /\ ~handle(extractors[i].value, query).rejected
       /\ Len(handle(extractors[i].value, query).data) = 0

\* C6 as stated: if some registered extractor accepts every query and
\* fetches exactly one track, search returns exactly that track for every
\* query string and searchEngine, and makes no provider call.
C6_AcceptAllExtractorWins ==
    (IsSearch /\ \E i \in 1..Len(extractors) : extractors[i].value.raw = "one")
    => /\ found.err = NoError
       /\ found.val = SearchResult(NoPlaylist, <<OneTrack(found.args.options.requestedBy)>>)
       /\ ProviderCalls = <<>>

\* C6 amended: if a registered extractor accepts every query and fetches
\* exactly one track, and every extractor registered before it declines the
\* query or fetches no result, search returns exactly that track for every
\* query string and searchEngine, and makes no provider call.
C6_FirstMatchingExtractorWins ==
    (IsSearch /\ \E i \in 1..Len(extractors) :
                    /\ extractors[i].value.raw = "one"
                    /\ \A j \in 1..(i - 1) : Passes(j, found.args.query))
    => /\ found.err = NoError
       /\ found.val = SearchResult(NoPlaylist, <<OneTrack(found.args.options.requestedBy)>>)
       /\ ProviderCalls = <<>>

\* C6 witness: a search for a Spotify album URL with a forced SoundCloud
\* engine returned the track of the accept-all extractor registered second,
\* after an extractor that fetched nothing.
C6_Witness ==
    /\ IsSearch
    /\ found.args.query = "https://open.spotify.com/album/a"
    /\ found.args.options.searchEngine = SOUNDCLOUD_SEARCH
    /\ Len(extractors) = 2
    /\ extractors[1].value.raw = "empty"
    /\ extractors[2].value.raw = "one"
    /\ found.val.tracks = <<OneTrack("u1")>>

\* C7: use(name, extractor) without force for a name that is registered
\* returns the registered ExtractorModel and leaves the registry, its order
\* included, unchanged.
C7_ReuseKeepsFirst ==
    [][ (found'.op = "use" /\ ~found'.args.force /\ Has(extractors, found'.args.name))
        => /\ found'.err = NoError
           /\ found'.val = Get(extractors, found'.args.name)
           /\ extractors' = extractors
      ]_vars

\* C7 witness: use without force returned a registration that wraps another
\* extractor than the one passed, while a second name is registered too.
C7_Witness ==
    /\ found.op = "use"
    /\ ~found.args.force
    /\ found.err = NoError
    /\ found.args.extractor \in RawExtractors
    /\ found.val.raw # found.args.extractor
    /\ Len(extractors) = 2

\* C8: when no extractor matched, the source kind is a built-in one and no
\* provider fetch of the search resolved, search returns the empty result
\* and raises nothing.
C8_ProviderFailureIsEmpty ==
    ( /\ IsSearch
      /\ NoExtractorMatched
      /\ sourceKind(found.args.query,
                    IF found.args.options.searchEngine = Unset THEN AUTO
                    ELSE found.args.options.searchEngine) \in BuiltinKinds
      /\ \A i \in 1..Len(ProviderCalls) : ~ProviderCalls[i].ok )
    => /\ found.err = NoError
       /\ found.val = EmptyResult

\* C9: when the fetch of an extractor that accepted the query rejects,
\* search returns the empty result and raises nothing.
C9_ExtractorFailureIsEmpty ==
    (IsSearch /\ \E i \in 1..Len(found.calls) : found.calls[i].op = "handle" /\ ~found.calls[i].ok)
    => /\ found.err = NoError
       /\ found.val = EmptyResult

\* C10: with searchEngine auto, no extractor matching and a query classified
\* as a Spotify album URL, the provider calls of the search are exactly one
\* Spotify.getData.
C10_SpotifyAlbumOnlySpotify ==
    ( /\ IsSearch
      /\ found.args.options.searchEngine \in {AUTO, Unset}
      /\ QueryResolver_resolve(found.args.query) = SPOTIFY_ALBUM
      /\ NoExtractorMatched )
    => /\ found.err = NoError
       /\ Len(ProviderCalls) = 1
       /\ ProviderCalls[1].op = "Spotify.getData"

\* C10 witness: such a search, with an extractor registered that fetched
\* nothing, returned a Spotify playlist of two tracks.
C10_Witness ==
    /\ IsSearch
    /\ found.args.options.searchEngine = AUTO
    /\ QueryResolver_resolve(found.args.query) = SPOTIFY_ALBUM
    /\ Len(extractors) >= 1
    /\ NoExtractorMatched
    /\ found.val.playlist.source = "spotify"
    /\ Len(found.val.tracks) = 2

\* the error search raises when it is called without options
MissingOptions == "DiscordPlayer#search needs search options!"

\* C11: use(name, resolver, force) raises and leaves the registry unchanged
\* whenever name is empty or resolver is neither an ExtractorModel nor an
\* object with both operations, in every registry state, the name being
\* registered already included.
C11_InvalidUseRaises ==
    [][ (/\ found'.op = "use"
         /\ \/ found'.args.name = NoName
            \/ found'.args.extractor \in InvalidExtractors)
        => /\ found'.err # NoError
           /\ extractors' = extractors
      ]_vars

\* C12: search with a string query and no options raises the missing-options
\* error before any capability check, extractor fetch or provider fetch is
\* made, and changes nothing of the registry.
C12_MissingOptionsFirst ==
    [][ (/\ found'.op = "search"
         /\ found'.args.query \in Queries
         /\ found'.args.options = NoSearchOptions)
        => /\ found'.err = MissingOptions
           /\ found'.calls = <<>>
           /\ extractors' = extractors
           /\ models' = models
      ]_vars

\* C12 witness: such a search raised while two extractors were registered,
\* the first of which accepts every query.
C12_Witness ==
    /\ found.op = "search"
    /\ found.args.query \in Queries
    /\ found.args.options = NoSearchOptions
    /\ found.err = MissingOptions
    /\ Len(extractors) = 2
    /\ extractors[1].value.raw = "one"

\* C15 as stated: in every result of search the tracks of a returned
\* Playlist refer back to that Playlist, and tracks returned with playlist
\* null carry no playlist back-reference.
C15_BackReferences ==
    (found.op = "search" /\ found.err = NoError)
    => /\ \A i \in 1..Len(found.val.tracks) :
             found.val.tracks[i].playlist = found.val.playlist.id
       /\ found.val.playlist # NoPlaylist => found.val.playlist.tracks = found.val.tracks

\* C15 amended: in every result of search for a query string the tracks of a
\* returned Playlist refer back to that Playlist, and tracks returned with
\* playlist null carry no playlist back-reference; a Track passed as the
\* query is returned as it is, with the back-reference it has.
C15_BuiltBackReferences ==
    (found.op = "search" /\ found.err = NoError)
    => /\ found.args.query \in Queries =>
             \A i \in 1..Len(found.val.tracks) :
                 found.val.tracks[i].playlist = found.val.playlist.id
       /\ found.val.playlist # NoPlaylist => found.val.playlist.tracks = found.val.tracks
       /\ found.args.query \in TrackQueries =>
             found.val = SearchResult(NoPlaylist, <<givenTrack(found.args.query)>>)

\* C15 witness: a search returned an extractor's playlist of two tracks.
C15_Witness ==
    /\ IsSearch
    /\ found.err = NoError
    /\ found.val.playlist.source = "extractor"
    /\ Len(found.val.playlist.tracks) = 2

\* the registered extractors that match the query: the capability check
\* accepts it and the fetch yields at least one result
Matching(query) ==
    {i \in 1..Len(extractors) :
        /\ validate(extractors[i].value, query)
        /\ ~handle(extractors[i].value, query).rejected
        /\ Len(handle(extractors[i].value, query).data) > 0}
FirstMatching(query) == CHOOSE i \in Matching(query) : \A j \in Matching(query) : i <= j

\* C17: the result search returns comes from the first extractor in
\* registration order that matches the query, fetched last of all calls made;
\* without a matching extractor no extractor's result is returned; and use
\* without force for a registered name leaves the registration order as it is.
C17_FirstMatchWins ==
    /\ [](IsSearch /\ found.err = NoError
          => IF Matching(found.args.query) # {}
             THEN LET first == extractors[FirstMatching(found.args.query)] IN
                  /\ found.val = extractorResult(handle(first.value, found.args.query),
                                                 found.args.options.requestedBy)
                  /\ found.calls[Len(found.calls)] = Call("handle", first.key, TRUE)
             ELSE \A i \in 1..Len(found.val.tracks) : found.val.tracks[i].source # "extractor")
    /\ [][ (found'.op = "use" /\ ~found'.args.force /\ Has(extractors, found'.args.name))
           => Keys(extractors') = Keys(extractors) ]_vars

\* C17 witness: with two extractors registered that both match a URL, search
\* returned the playlist of the one registered first.
C17_Witness ==
    /\ IsSearch
    /\ found.err = NoError
    /\ Len(extractors) = 2
    /\ Matching(found.args.query) = {1, 2}
    /\ extractors[1].value.raw = "list"
    /\ extractors[2].value.raw = "one"
    /\ found.val.playlist.source = "extractor"

\* the extractor fetches made by the last search
HandleCalls == SelectSeq(found.calls, LAMBDA c : c.op = "handle")
\* the registered extractors whose capability check accepts the query
Accepting(query) == {i \in 1..Len(extractors) : validate(extractors[i].value, query)}

\* C18: one search invokes the fetch of at most one extractor, the first in
\* registration order whose capability check accepts the query; when that
\* fetch yields no result no other extractor is fetched from.
C18_OneExtractorFetch ==
    IsSearch
    => /\ Len(HandleCalls) <= 1
       /\ Len(HandleCalls) = 1 =>
             /\ Accepting(found.args.query) # {}
             /\ \A j \in Accepting(found.args.query) :
                   extractors[j].key = HandleCalls[1].on \/
                   \E i \in Accepting(found.args.query) : i < j

\* the effective source kind of the last search
EffectiveKind ==
    sourceKind(found.args.query,
               IF found.args.options.searchEngine = Unset THEN AUTO
               ELSE found.args.options.searchEngine)

\* the provider operation the handler of a built-in source kind starts with
FirstFetch(kind) ==
    CASE kind = YOUTUBE_SEARCH -> "YouTube.search"
      [] kind = SOUNDCLOUD_TRACK -> "soundcloud.getSongInfo"
      [] kind = SOUNDCLOUD_SEARCH -> "soundcloud.search"
      [] kind \in {SPOTIFY_SONG, SPOTIFY_ALBUM, SPOTIFY_PLAYLIST} -> "Spotify.getData"
      [] kind = SOUNDCLOUD_PLAYLIST -> "soundcloud.getPlaylist"
      [] kind = YOUTUBE_PLAYLIST -> "YouTube.getPlaylist"
      [] OTHER -> "none"

\* C19: when no extractor matched and searchEngine is not auto, the provider
\* operation search calls is the one of the source kind the caller gave,
\* whatever the classifier says of the query text.
C19_ForcedKindAlone ==
    ( /\ IsSearch
      /\ NoExtractorMatched
      /\ found.args.options.searchEngine \notin {AUTO, Unset}
      /\ ProviderCalls # <<>> )
    => ProviderCalls[1].op = FirstFetch(found.args.options.searchEngine)

\* C20: when no extractor matched, the handler of a built-in source kind
\* makes exactly one provider fetch, whatever the provider answers.
C20_OneFetchPerHandler ==
    ( /\ IsSearch
      /\ NoExtractorMatched
      /\ EffectiveKind \in BuiltinKinds )
    => Len(ProviderCalls) = 1

-----------------------------------------------------------------------------
(* Further properties of the queue registry and the voice-state handler *)

\* C13: a failing teardown is swallowed on all three teardown paths: no
\* teardown error leaves deleteQueue, the forced-disconnect branch or the
\* timer callback, and the rest of the path still runs: deleteQueue removes
\* the registry entry, the forced disconnect emits botDisconnect, the timer
\* expiry emits channelEmpty.
C13_TeardownFailureSwallowed ==
    [][ /\ ret'.err # TeardownError
        /\ \A g \in Guilds :
              deleteQueue(g) => ret'.err = NoError /\ ~Has(queues', g)
        /\ \A g \in Guilds :
              LET q == getQueue(g) IN
              ( /\ q # NoQueue
                /\ voice[g][Bot] # NoChannel
                /\ voice'[g][Bot] = NoChannel )
              => CopiesIn(<<"botDisconnect", q>>, emitted') = Count("botDisconnect", q) + 1
        /\ \A q \in Queues : \A k \in Pending(q) :
              ( /\ timers' = timers \ {<<q, k>>}
                /\ voice' = voice
                /\ isVoiceEmpty(voice, heap[q].guild, heap[q].connection)
                /\ Has(queues, heap[q].guild) )
              => Count("channelEmpty", q)' = Count("channelEmpty", q) + 1
      ]_vars

\* queue q is registered, leaves on empty, is connected, and its channel has
\* no human occupant
EmptyFor(q) ==
    /\ q \in Queues
    /\ Registered(q)
    /\ heap[q].options.leaveOnEmpty
    /\ heap[q].connection # NoChannel
    /\ isVoiceEmpty(voice, heap[q].guild, heap[q].connection)

\* C14: whenever the channel of a connected leaveOnEmpty queue has become
\* empty, however the last member left it, then in the end the queue is torn
\* down and unregistered, unless a member is in the channel again.
C14_EmptyChannelEndsSession ==
    \A q \in 1..MaxQueues : EmptyFor(q) ~> ~EmptyFor(q)

\* the cooldown timers pending for guild g
PendingOf(g) == {t \in timers : heap[t[1]].guild = g}

\* C16: in every reachable state at most one empty-channel cooldown timer is
\* pending for each guild.
C16_OneTimerPerGuild ==
    \A g \in Guilds : Cardinality(PendingOf(g)) <= 1

\* queue q does not leave on empty, or has no connection
Exempt(q) == ~heap[q].options.leaveOnEmpty \/ heap[q].connection = NoChannel

\* C21: a voice-state event that is not the bot losing its channel, in a
\* guild whose queue does not leave on empty or has no connection, changes
\* neither the queue, the registry, the pending timers nor what was emitted;
\* such a queue never has a cooldown timer pending, and channelEmpty is never
\* emitted for it.
C21_ExemptQueueUntouched ==
    /\ [](\A q \in Queues : Exempt(q) => Pending(q) = {} /\ Count("channelEmpty", q) = 0)
    /\ [][ \A g \in Guilds : \A m \in Members(g) :
              ( /\ voice'[g][m] # voice[g][m]
                /\ ~(m = Bot /\ voice'[g][m] = NoChannel)
                /\ Has(queues, g)
                /\ Exempt(Get(queues, g)) )
              => /\ ret'.err = NoError
                 /\ UNCHANGED <<queues, heap, timers, emitted>>
         ]_vars

\* C21 witness: the last member has left the channel of a registered,
\* connected queue that does not leave on empty, while a cooldown timer of
\* an earlier queue is pending.
C21_Witness ==
    \E q \in Queues :
        /\ Registered(q)
        /\ ~heap[q].options.leaveOnEmpty
        /\ heap[q].connection # NoChannel
        /\ isVoiceEmpty(voice, heap[q].guild, heap[q].connection)
        /\ voice[heap[q].guild][Bot] = heap[q].connection
        /\ \E p \in Queues : Pending(p) # {}

\* C22: the expiry of a cooldown timer whose queue is not the one registered
\* for its guild any more changes nothing: it tears down neither that queue
\* again nor the queue registered in its place, unregisters nothing and
\* emits nothing.
C22_StaleTimerHarmless ==
    [][ \A q \in Queues : \A k \in Pending(q) :
            ( /\ timers' = timers \ {<<q, k>>}
              /\ voice' = voice
              /\ ~Registered(q) )
            => UNCHANGED <<queues, heap, emitted>>
      ]_vars

====
